---- MODULE Spec2Model ----
(***************************************************************************)
(* backlogger: one run of the backlog checker (collect_results, the SLO    *)
(* reminder / de-prioritisation of tickets, the webhook differ and the     *)
(* state file), modelled from backlogger.py.                               *)
(*                                                                         *)
(* Conventions.  An optional value (a missing dict key, Python's None) is  *)
(* a sequence of length at most one: None is <<>>, a present value v is    *)
(* <<v>>.  A text is a sequence of tokens; every literal phrase the        *)
(* reminder pattern looks for is one token, so matching the pattern is     *)
(* computed on the tokens.  Instants are counted in days (datetime         *)
(* ordinals); a journal's created_on holds the instant its string denotes. *)
(***************************************************************************)
EXTENDS Integers, Sequences, FiniteSets, TLC

None == <<>>
Some(v) == <<v>>
IsNone(o) == o = <<>>
Val(o) == o[1]

(***************************************************************************)
(* Bounds of the model.                                                    *)
(***************************************************************************)
MaxJournals == 2
MaxTickets == 2
MaxQueries == 2
MaxCount == 2

(***************************************************************************)
(* Texts: reminder_text_common, reminder_text, update_slo_text and the     *)
(* reminder pattern.                                                       *)
(***************************************************************************)
SetTo == "This ticket was set to "
NotUpdated == " priority but was not updated"
SloLink == " [within the SLO period](url)."
Consider == " Please consider"
PickUp == " picking up this ticket or just set the ticket to the next lower priority."
WillBeSet == " The ticket will be set to the next lower priority "
Newline == "\n"

\* reminder_text_common.format(priority=..., url=...)
reminder_text_common(priority) == <<SetTo, "**", priority, "**", NotUpdated, SloLink>>

\* reminder_text, with the blank that " ".join puts before it
reminder_text == <<Consider, PickUp>>

\* A note of de-prioritisation that repeats the words of the reminder.
update_slo_text_consider(priority) == <<Consider, WillBeSet, "**", priority, "**", ".">>

\* update_slo_text.format(priority=...), with the blank that " ".join puts before it
update_slo_text(priority) == <<WillBeSet, "**", priority, "**", ".">>

\* The text between positions a and b (exclusive) holds no line break: what ".*" can span.
DotStar(s, a, b) == \A k \in (a + 1)..(b - 1) : s[k] # Newline

\* re.search(reminder_regex, notes): "^" anchors the phrase at the start of the text.
reminder_regex(s) ==
    /\ Len(s) >= 1
    /\ s[1] = SetTo
    /\ \E i \in 2..Len(s) : \E j \in 2..Len(s) :
          /\ i < j
          /\ s[i] = NotUpdated
          /\ s[j] = Consider
          /\ DotStar(s, 1, i)
          /\ DotStar(s, i, j)

(***************************************************************************)
(* The calendar and the priority ladder.                                   *)
(***************************************************************************)
IsLeap(y) == y % 4 = 0 /\ (y % 100 # 0 \/ y % 400 = 0)

\* calendar.monthrange(year, month)[1]
MonthRange(y, m) ==
    IF m = 2 THEN (IF IsLeap(y) THEN 29 ELSE 28)
    ELSE IF m \in {4, 6, 9, 11} THEN 30 ELSE 31

RECURSIVE SumMonths(_, _)
SumMonths(y, m) == IF m = 0 THEN 0 ELSE MonthRange(y, m) + SumMonths(y, m - 1)

\* datetime.toordinal of a date record
ToOrdinal(d) ==
    LET y1 == d.year - 1
    IN  y1 * 365 + (y1 \div 4) - (y1 \div 100) + (y1 \div 400)
        + SumMonths(d.year, d.month - 1) + d.day

Priorities == {"Immediate", "Urgent", "High", "Normal", "Low"}

\* A ladder on which Immediate leads to High.
slo_priorities_skip(now) ==
    [Immediate |-> [period |-> 1, next_priority |-> [id |-> 5, name |-> "High"]],
     Urgent    |-> [period |-> 7, next_priority |-> [id |-> 5, name |-> "High"]],
     High      |-> [period |-> MonthRange(now.year, now.month),
                    next_priority |-> [id |-> 4, name |-> "Normal"]],
     Normal    |-> [period |-> SumMonths(now.year, 12),
                    next_priority |-> [id |-> 3, name |-> "Low"]]]

\* slo_priorities, computed from the date `now` the module was loaded at
slo_priorities(now) ==
    [Immediate |-> [period |-> 1, next_priority |-> [id |-> 6, name |-> "Urgent"]],
     Urgent    |-> [period |-> 7, next_priority |-> [id |-> 5, name |-> "High"]],
     High      |-> [period |-> MonthRange(now.year, now.month),
                    next_priority |-> [id |-> 4, name |-> "Normal"]],
     Normal    |-> [period |-> SumMonths(now.year, 12),
                    next_priority |-> [id |-> 3, name |-> "Low"]]]

\* datetime.min, the initial 'last_reminder'
DatetimeMin == 1

(***************************************************************************)
(* The History Scanner.                                                    *)
(***************************************************************************)
\* journal.get("notes", None) is None or len(journal["notes"]) == 0
SkipsJournal(journal) == IsNone(journal.notes) \/ Len(Val(journal.notes)) = 0

ScanResult(ret, state) == [ret |-> ret, state |-> state]

\* A variant in which a journal without notes ends the loop (break for continue).
RECURSIVE reminder_exists_from_break(_, _, _)
reminder_exists_from_break(journals, k, state) ==
    IF k > Len(journals) \/ SkipsJournal(journals[k])
    THEN ScanResult(FALSE, [state EXCEPT !.has_repeat_reminder = FALSE])
    ELSE IF reminder_regex(Val(journals[k].notes))
    THEN ScanResult(TRUE, [last_reminder |-> journals[k].created_on,
                           has_repeat_reminder |-> TRUE])
    ELSE reminder_exists_from_break(journals, k + 1, state)

\* The loop of reminder_exists from journal k on: the first journal that matches ends it.
RECURSIVE reminder_exists_from(_, _, _)
reminder_exists_from(journals, k, state) ==
    IF k > Len(journals)
    THEN ScanResult(FALSE, [state EXCEPT !.has_repeat_reminder = FALSE])
    ELSE IF SkipsJournal(journals[k])
    THEN reminder_exists_from(journals, k + 1, state)
    ELSE IF reminder_regex(Val(journals[k].notes))
    THEN ScanResult(TRUE, [last_reminder |-> journals[k].created_on,
                           has_repeat_reminder |-> TRUE])
    ELSE reminder_exists_from(journals, k + 1, state)

reminder_exists(journals, state) == reminder_exists_from(journals, 1, state)

(***************************************************************************)
(* State.                                                                  *)
(***************************************************************************)
VARIABLES
    present,            \* module-level `present`: the date of the run
    data,               \* the configuration: [reminder, queries]
    switches,           \* the command line: [exit_code]
    environ,            \* [WEBHOOK_URL, webhook_up]: is the URL set, does the endpoint answer
    old_state_file,     \* STATE_FOLDER/state.json as get_state finds it (None: no file)
    tickets,            \* the tracker: id -> [priority, journals]
    api,                \* the tracker's answers: [query: title -> ..., journals: id -> kind]
    pc,                 \* where the run is
    qi,                 \* collect_results: index of the query in data["queries"]
    root,               \* check_backlog: the answer to the query
    ti,                 \* list_issues: index of the issue in root["issues"]
    issue_count,        \* what list_issues returned (None on a KeyError)
    poo,                \* the ticket list_issues last came to (None: not yet)
    poo_conf,           \* the query that ticket was listed by (None: not yet)
    journals,           \* what retrieve_journals last returned (None, or Some(list))
    poo_reminder_state, \* the state dict of the ticket last evaluated
    found,              \* what reminder_exists last returned (None: it was not called)
    sent,               \* the PUT issue_reminder last sent (None: it sent none)
    puts,               \* the PUT requests sent to the tracker, in order
    all_good,           \* collect_results: no query failed so far
    results,            \* collect_results: the rows of the report
    bad_queries,        \* collect_results: title -> detail of each failing query
    msg,                \* trigger_webhook: the message decided on (None: no message)
    posts,              \* the messages POSTed to the webhook
    state_file,         \* state.json as update_state wrote it (None: not written)
    exc,                \* the exception that ended the run (None: none)
    exit_status         \* the exit status of the process (None: still running)

vars == <<present, data, switches, environ, old_state_file, tickets, api, pc, qi, root, ti,
          issue_count, poo, poo_conf, journals, poo_reminder_state, found, sent, puts,
          all_good, results, bad_queries, msg, posts, state_file, exc, exit_status>>

inputs == <<present, data, switches, environ, old_state_file, api>>

\* What the evaluation of one ticket leaves behind.
ticket_vars == <<poo, poo_conf, journals, poo_reminder_state, found, sent>>

\* The query being processed.
conf == data.queries[qi]

\* poo_reminder_state as list_issues creates it for each issue
FreshState == [last_reminder |-> DatetimeMin, has_repeat_reminder |-> FALSE]

(***************************************************************************)
(* The tracker (Redmine), as far as the run talks to it.                   *)
(***************************************************************************)
\* The priority the tracker gives a ticket for a priority_id.
PriorityName(id) ==
    CASE id = 3 -> "Low" [] id = 4 -> "Normal" [] id = 5 -> "High"
      [] id = 6 -> "Urgent" [] OTHER -> "Immediate"

\* PUT <web>/<id>.json: the tracker records the note as a journal of today and
\* sets the priority when the body names one.
ApplyPut(tks, put, now) ==
    [tks EXCEPT ![put.id] =
        [priority |-> IF "priority_id" \in DOMAIN put.issue
                      THEN PriorityName(put.issue.priority_id) ELSE @.priority,
         journals |-> Append(@.journals,
                             [notes |-> Some(put.issue.notes), created_on |-> ToOrdinal(now)])]]

(***************************************************************************)
(* The Escalation Decision Engine: issue_reminder and what it calls.       *)
(***************************************************************************)
Outcome(e, js, ret, st, put) ==
    [exc |-> e, journals |-> js, found |-> ret, state |-> st, put |-> put]

\* A variant that answers a missing `journals` key with the empty list.
retrieve_journals_empty(p) ==
    LET kind == api.journals[p.id]
    IN  CASE kind = "http_error" -> [exc |-> Some("HTTPError"), value |-> None]
          [] kind = "no_issue"   -> [exc |-> Some("KeyError"), value |-> None]
          [] kind = "empty"      -> [exc |-> None, value |-> None]
          [] kind = "no_journals" -> [exc |-> None, value |-> Some(<<>>)]
          [] OTHER               -> [exc |-> None, value |-> Some(tickets[p.id].journals)]

\* retrieve_journals: [exc, value]; value is None or Some(list of journals)
retrieve_journals(p) ==
    LET kind == api.journals[p.id]
    IN  CASE kind = "http_error" -> [exc |-> Some("HTTPError"), value |-> None]
          [] kind = "no_issue"   -> [exc |-> Some("KeyError"), value |-> None]
          [] kind = "empty"      -> [exc |-> None, value |-> None]
          [] kind = "no_journals" -> [exc |-> None, value |-> None]
          [] OTHER               -> [exc |-> None, value |-> Some(tickets[p.id].journals)]

\* A variant that lowers the priority on the day the period ends (<= for <).
PeriodElapsed_inclusive(state, period, now) == state.last_reminder + period <= ToOrdinal(now)

\* The condition of _update_issue_priority
PeriodElapsed(state, period, now) == state.last_reminder + period < ToOrdinal(now)

\* _send_first_reminder: the PUT it sends
_send_first_reminder(poo_id, text) == [id |-> poo_id, issue |-> [notes |-> text]]

\* _update_issue_priority: [exc, put]
_update_issue_priority(poo_id, priority_current, state, now) ==
    IF ~state.has_repeat_reminder
    THEN [exc |-> None, put |-> None]
    ELSE IF priority_current \notin DOMAIN slo_priorities(now)
    THEN [exc |-> Some("KeyError"), put |-> None]
    ELSE LET entry == slo_priorities(now)[priority_current]
         IN  IF PeriodElapsed(state, entry.period, now)
             THEN [exc |-> None,
                   put |-> Some([id |-> poo_id,
                                 issue |-> [priority_id |-> entry.next_priority.id,
                                            notes |-> reminder_text_common(priority_current)
                                                      \o update_slo_text(entry.next_priority.name)]])]
             ELSE [exc |-> None, put |-> None]

\* A variant that never uses the query's comment.
ReminderMsg_template(cf, priority) == reminder_text_common(priority) \o reminder_text

\* The text of the first reminder: the query's comment, else the template.
ReminderMsg(cf, priority) ==
    IF IsNone(cf.comment) THEN reminder_text_common(priority) \o reminder_text
    ELSE Val(cf.comment)

\* "Skipping priority update ..., already at lowest"
AlreadyLowest(priority, state) == priority = "Low" /\ state.has_repeat_reminder

\* A variant that writes the reminder whether or not one exists already.
issue_reminder_resend(cf, p, state, now) ==
    IF ~data.reminder
    THEN Outcome(None, None, None, state, None)
    ELSE LET got == retrieve_journals(p)
         IN  IF ~IsNone(got.exc)
             THEN Outcome(got.exc, None, None, state, None)
             ELSE IF IsNone(got.value)
             THEN Outcome(None, None, None, state, None)
             ELSE LET scan == reminder_exists(Val(got.value), state)
                  IN  Outcome(None, got.value, Some(scan.ret), scan.state,
                              Some(_send_first_reminder(p.id, ReminderMsg(cf, p.priority))))

\* issue_reminder that does not look at --reminder-comment-on-issues
issue_reminder_unconditional(cf, p, state, now) ==
    LET got == retrieve_journals(p)
    IN  IF ~IsNone(got.exc)
        THEN Outcome(got.exc, None, None, state, None)
        ELSE IF IsNone(got.value)
        THEN Outcome(None, None, None, state, None)
        ELSE LET scan == reminder_exists(Val(got.value), state)
             IN  IF scan.ret
                 THEN IF AlreadyLowest(p.priority, scan.state)
                      THEN Outcome(None, got.value, Some(TRUE), scan.state, None)
                      ELSE LET upd == _update_issue_priority(p.id, p.priority,
                                                             scan.state, now)
                           IN  Outcome(upd.exc, got.value, Some(TRUE), scan.state,
                                       upd.put)
                 ELSE Outcome(None, got.value, Some(FALSE), scan.state,
                              Some(_send_first_reminder(p.id, ReminderMsg(cf, p.priority))))

\* issue_reminder(conf, poo, poo_reminder_state)
issue_reminder(cf, p, state, now) ==
    IF ~data.reminder
    THEN Outcome(None, None, None, state, None)
    ELSE LET got == retrieve_journals(p)
         IN  IF ~IsNone(got.exc)
             THEN Outcome(got.exc, None, None, state, None)
             ELSE IF IsNone(got.value)
             THEN Outcome(None, None, None, state, None)
             ELSE LET scan == reminder_exists(Val(got.value), state)
                  IN  IF scan.ret
                      THEN IF AlreadyLowest(p.priority, scan.state)
                           THEN Outcome(None, got.value, Some(TRUE), scan.state, None)
                           ELSE LET upd == _update_issue_priority(p.id, p.priority,
                                                                  scan.state, now)
                                IN  Outcome(upd.exc, got.value, Some(TRUE), scan.state,
                                            upd.put)
                      ELSE Outcome(None, got.value, Some(FALSE), scan.state,
                                   Some(_send_first_reminder(p.id, ReminderMsg(cf, p.priority))))

(***************************************************************************)
(* The run: collect_results, check_backlog, list_issues.                   *)
(***************************************************************************)
\* An uncaught exception ends the process with a traceback.
Raise(name) ==
    /\ exc' = Some(name)
    /\ exit_status' = Some(1)
    /\ pc' = "done"

\* The issues of a query as the tracker lists them: id and current priority.
Listed(ids) == [k \in 1..Len(ids) |-> [id |-> ids[k], priority |-> tickets[ids[k]].priority]]

\* The JSON the tracker answers a query with.
QueryAnswer(a) ==
    CASE a.kind = "no_issues" -> [total_count |-> a.total_count]
      [] a.kind = "no_total"  -> [issues |-> Listed(a.ids)]
      [] OTHER                -> [issues |-> Listed(a.ids), total_count |-> a.total_count]

\* check_backlog: root = json_rest("GET", data["api"] + "?" + conf["query"])
GetQuery ==
    /\ pc = "query"
    /\ LET a == api.query[conf.title]
       IN  IF a.kind = "http_error"
           THEN /\ Raise("HTTPError")
                /\ UNCHANGED <<root, ti>>
           ELSE /\ root' = QueryAnswer(a)
                /\ ti' = 1
                /\ pc' = "issues"
                /\ UNCHANGED <<exc, exit_status>>
    /\ UNCHANGED <<inputs, tickets, qi, issue_count, ticket_vars,
                   puts, all_good, results, bad_queries, msg, posts, state_file>>

\* list_issues: one turn of the loop over root["issues"]
ListIssue ==
    /\ pc = "issues"
    /\ "issues" \in DOMAIN root
    /\ ti <= Len(root.issues)
    /\ LET p == root.issues[ti]
           out == IF conf.slo THEN issue_reminder(conf, p, FreshState, present)
                  ELSE Outcome(None, None, None, FreshState, None)
       IN  /\ poo' = Some(p)
           /\ poo_conf' = Some(conf)
           /\ journals' = out.journals
           /\ poo_reminder_state' = out.state
           /\ found' = out.found
           /\ sent' = out.put
           /\ IF IsNone(out.put)
              THEN UNCHANGED <<puts, tickets>>
              ELSE /\ puts' = Append(puts, Val(out.put))
                   /\ tickets' = ApplyPut(tickets, Val(out.put), present)
           /\ IF IsNone(out.exc)
              THEN /\ ti' = ti + 1
                   /\ UNCHANGED <<pc, issue_count, exc, exit_status>>
              ELSE IF Val(out.exc) = "KeyError"
              THEN /\ issue_count' = None
                   /\ pc' = "evaluate"
                   /\ UNCHANGED <<ti, exc, exit_status>>
              ELSE /\ Raise(Val(out.exc))
                   /\ UNCHANGED <<ti, issue_count>>
    /\ UNCHANGED <<inputs, qi, root, all_good, results, bad_queries, msg, posts,
                   state_file>>

\* list_issues: the end of the loop, or the KeyError of root["issues"]
ListIssuesEnd ==
    /\ pc = "issues"
    /\ IF "issues" \notin DOMAIN root
       THEN /\ issue_count' = None
            /\ pc' = "evaluate"
            /\ UNCHANGED <<exc, exit_status>>
       ELSE /\ ti > Len(root.issues)
            /\ IF "total_count" \in DOMAIN root
               THEN /\ issue_count' = Some(root.total_count)
                    /\ pc' = "evaluate"
                    /\ UNCHANGED <<exc, exit_status>>
               ELSE /\ Raise("KeyError")
                    /\ UNCHANGED issue_count
    /\ UNCHANGED <<inputs, tickets, qi, root, ti, ticket_vars, puts,
                   all_good, results, bad_queries, msg, posts, state_file>>

\* check_backlog that enforces a min on its own
check_backlog_min_alone(cf, count) ==
    IF IsNone(cf.max)
    THEN IsNone(cf.min) \/ IsNone(count) \/ Val(count) >= Val(cf.min)
    ELSE ~(Val(count) > Val(cf.max) \/ (~IsNone(cf.min) /\ Val(count) < Val(cf.min)))

\* check_backlog: the verdict on a count
check_backlog(cf, count) ==
    IF IsNone(cf.max) THEN TRUE
    ELSE ~(Val(count) > Val(cf.max) \/ (~IsNone(cf.min) /\ Val(count) < Val(cf.min)))

\* collect_results: url = data["web"] + "?" + conf["query"]; a query is named by its title
Url(cf) == <<"web?", cf.title>>

\* collect_results: the text of the limits
Limits(cf) ==
    (IF IsNone(cf.max) THEN "" ELSE "<" \o ToString(Val(cf.max) + 1))
    \o (IF IsNone(cf.min) THEN "" ELSE ", >" \o ToString(Val(cf.min) - 1))

\* bad_queries[title] = detail
DictSet(d, key, value) == [k \in DOMAIN d \cup {key} |-> IF k = key THEN value ELSE d[k]]

\* check_backlog after list_issues, and the rest of the loop body of collect_results
Evaluate ==
    /\ pc = "evaluate"
    /\ IF ~IsNone(conf.max) /\ IsNone(issue_count)
       THEN /\ Raise("TypeError")
            /\ UNCHANGED <<qi, all_good, results, bad_queries>>
       ELSE LET good == check_backlog(conf, issue_count)
                detail == [url |-> Url(conf), issue_count |-> issue_count,
                           limits |-> Limits(conf)]
            IN  /\ results' = Append(results, [title |-> conf.title, url |-> Url(conf),
                                               issue_count |-> issue_count,
                                               limits |-> Limits(conf), good |-> good])
                /\ all_good' = (all_good /\ good)
                /\ bad_queries' = IF good THEN bad_queries
                                  ELSE DictSet(bad_queries, conf.title, detail)
                /\ qi' = qi + 1
                /\ pc' = IF qi = Len(data.queries) THEN "webhook" ELSE "query"
                /\ UNCHANGED <<exc, exit_status>>
    /\ UNCHANGED <<inputs, tickets, root, ti, issue_count, ticket_vars, puts, msg,
                   posts, state_file>>

(***************************************************************************)
(* The Run State Differ and the state file.                                *)
(***************************************************************************)
\* The lines of the alert: one for each query of new_bad_queries (a set: no order).
AlertLines(bad) ==
    {[query |-> q, issue_count |-> bad[q].issue_count, limits |-> bad[q].limits] :
        q \in DOMAIN bad}

\* A variant whose alert lists only the queries that broke in this run.
WebhookMsg_broken_only(state, bad) ==
    IF IsNone(state) THEN None
    ELSE LET old_bad_queries == DOMAIN Val(state).bad_queries
             new_bad_queries == DOMAIN bad
             fixed_queries == old_bad_queries \ new_bad_queries
             broken_queries == new_bad_queries \ old_bad_queries
         IN  IF broken_queries # {}
             THEN Some([kind |-> "alert",
                        lines |-> {l \in AlertLines(bad) : l.query \in broken_queries}])
             ELSE IF fixed_queries # {} /\ new_bad_queries = {}
             THEN Some([kind |-> "all_clear", lines |-> {}])
             ELSE None

\* A variant that gives the all-clear as soon as any query is fixed.
WebhookMsg_any_fixed(state, bad) ==
    IF IsNone(state) THEN None
    ELSE LET old_bad_queries == DOMAIN Val(state).bad_queries
             new_bad_queries == DOMAIN bad
             fixed_queries == old_bad_queries \ new_bad_queries
             broken_queries == new_bad_queries \ old_bad_queries
         IN  IF broken_queries # {}
             THEN Some([kind |-> "alert", lines |-> AlertLines(bad)])
             ELSE IF fixed_queries # {}
             THEN Some([kind |-> "all_clear", lines |-> {}])
             ELSE None

\* trigger_webhook: the message (None: msg stays None, or there is no state)
WebhookMsg(state, bad) ==
    IF IsNone(state) THEN None
    ELSE LET old_bad_queries == DOMAIN Val(state).bad_queries
             new_bad_queries == DOMAIN bad
             fixed_queries == old_bad_queries \ new_bad_queries
             broken_queries == new_bad_queries \ old_bad_queries
         IN  IF broken_queries # {}
             THEN Some([kind |-> "alert", lines |-> AlertLines(bad)])
             ELSE IF fixed_queries # {} /\ new_bad_queries = {}
             THEN Some([kind |-> "all_clear", lines |-> {}])
             ELSE None

\* main: state = get_state(); trigger_webhook(state, bad_queries)
\* (generate_markdown, which runs before it, writes the report and is left out)
TriggerWebhook ==
    /\ pc = "webhook"
    /\ msg' = WebhookMsg(old_state_file, bad_queries)
    /\ IF ~IsNone(msg') /\ environ.WEBHOOK_URL
       THEN IF environ.webhook_up
            THEN /\ posts' = Append(posts, Val(msg'))
                 /\ pc' = "update"
                 /\ UNCHANGED <<exc, exit_status>>
            ELSE /\ Raise("ConnectionError")
                 /\ UNCHANGED posts
       ELSE /\ pc' = "update"
            /\ UNCHANGED <<posts, exc, exit_status>>
    /\ UNCHANGED <<inputs, tickets, qi, root, ti, issue_count, ticket_vars, puts,
                   all_good, results, bad_queries, state_file>>

\* main: update_state(bad_queries)
UpdateState ==
    /\ pc = "update"
    /\ state_file' = Some([bad_queries |-> bad_queries, updated |-> ToOrdinal(present)])
    /\ pc' = "exit"
    /\ UNCHANGED <<inputs, tickets, qi, root, ti, issue_count, ticket_vars, puts, all_good, results, bad_queries, msg, posts,
                   exc, exit_status>>

\* main: if switches.exit_code and not all_good: sys.exit(3)
Exit ==
    /\ pc = "exit"
    /\ exit_status' = Some(IF switches.exit_code /\ ~all_good THEN 3 ELSE 0)
    /\ pc' = "done"
    /\ UNCHANGED <<inputs, tickets, qi, root, ti, issue_count, ticket_vars, puts, all_good, results, bad_queries, msg, posts,
                   state_file, exc>>

(***************************************************************************)
(* The inputs of a run: configuration, environment and what the tracker    *)
(* holds.                                                                  *)
(***************************************************************************)
Titles == <<"A", "B", "C", "D">>

\* A February of a leap year and a July of a common year.
PresentDates == {[year |-> 2024, month |-> 2, day |-> 29],
                 [year |-> 2025, month |-> 7, day |-> 1]}

QueryKinds == {"ok", "no_issues", "no_total", "http_error"}
JournalKinds == {"ok", "no_journals", "empty", "no_issue", "http_error"}

CustomComment == <<"Please have a look at this ticket.">>
ReminderNote(priority) == reminder_text_common(priority) \o reminder_text
UpdateNote(priority) == reminder_text_common(priority) \o update_slo_text("Low")
QuotedNote(priority) == <<"> ">> \o ReminderNote(priority)

\* The notes a journal may carry: none, empty, unrelated, a reminder, the note of a
\* de-prioritisation, a reminder quoted in a reply.
NoteTexts(priority) ==
    {None, Some(<<>>), Some(<<"Any news?">>), Some(ReminderNote(priority)),
     Some(UpdateNote(priority)), Some(QuotedNote(priority))}

\* The SLO period of a priority (Low has none: two days stand in).
PeriodOf(priority, now) ==
    IF priority \in DOMAIN slo_priorities(now) THEN slo_priorities(now)[priority].period
    ELSE slo_priorities(now)["Immediate"].period + 1

\* Ages of journals, in days before the run: around the SLO period of the priority.
Ages(priority, now) ==
    {PeriodOf(priority, now) - 1, PeriodOf(priority, now), PeriodOf(priority, now) + 1}

JournalsOf(priority, now) ==
    {[notes |-> n, created_on |-> ToOrdinal(now) - a] :
        n \in NoteTexts(priority), a \in Ages(priority, now)}

\* The tracker lists journals in the order they were written.
Chronological(js) == \A k \in 1..(Len(js) - 1) : js[k].created_on <= js[k + 1].created_on

JournalSeqs(priority, now, n) ==
    UNION {{js \in [1..k -> JournalsOf(priority, now)] : Chronological(js)} : k \in 0..n}

PlainEnviron == [WEBHOOK_URL |-> FALSE, webhook_up |-> TRUE]

RunStart ==
    /\ pc = "query"
    /\ qi = 1
    /\ root = <<>>
    /\ ti = 1
    /\ issue_count = None
    /\ poo = None
    /\ poo_conf = None
    /\ journals = None
    /\ poo_reminder_state = FreshState
    /\ found = None
    /\ sent = None
    /\ puts = <<>>
    /\ all_good = TRUE
    /\ results = <<>>
    /\ bad_queries = <<>>
    /\ msg = None
    /\ posts = <<>>
    /\ state_file = None
    /\ exc = None
    /\ exit_status = None

\* One SLO-tracked query returning one ticket: every priority, every history.
InitOneTicket ==
    \E now \in PresentDates, priority \in Priorities, comment \in {None, Some(CustomComment)} :
    \E js \in JournalSeqs(priority, now, MaxJournals) :
        /\ present = now
        /\ data = [reminder |-> TRUE,
                   queries |-> <<[title |-> Titles[1], slo |-> TRUE, max |-> None,
                                  min |-> None, comment |-> comment]>>]
        /\ switches = [exit_code |-> FALSE]
        /\ environ = PlainEnviron
        /\ old_state_file = None
        /\ tickets = <<[priority |-> priority, journals |-> js]>>
        /\ api = [query |-> [t \in {Titles[1]} |-> [kind |-> "ok", ids |-> <<1>>,
                                                      total_count |-> 1]],
                  journals |-> <<"ok">>]

\* A reminder written one day more than the SLO period ago.
OldReminder(priority, now) ==
    [notes |-> Some(ReminderNote(priority)),
     created_on |-> ToOrdinal(now) - PeriodOf(priority, now) - 1]

\* One query returning up to MaxTickets tickets, each journal fetch answered in every
\* way; a single ticket also without --reminder-comment-on-issues or without
\* `updated_on` in the query.
InitFetches ==
    \E now \in PresentDates, n \in 1..MaxTickets, reminder \in BOOLEAN, slo \in BOOLEAN :
    \E prios \in [1..n -> {"Urgent", "Low"}], kinds \in [1..n -> JournalKinds],
       hist \in [1..n -> BOOLEAN] :
        /\ now.month = 2
        /\ n > 1 => (reminder /\ slo)
        /\ present = now
        /\ data = [reminder |-> reminder,
                   queries |-> <<[title |-> Titles[1], slo |-> slo, max |-> None,
                                  min |-> None, comment |-> None]>>]
        /\ switches = [exit_code |-> FALSE]
        /\ environ = PlainEnviron
        /\ old_state_file = None
        /\ tickets = [k \in 1..n |->
                        [priority |-> prios[k],
                         journals |-> IF hist[k] THEN <<OldReminder(prios[k], now)>>
                                      ELSE <<>>]]
        /\ api = [query |-> [t \in {Titles[1]} |->
                                [kind |-> "ok", ids |-> [k \in 1..n |-> k], total_count |-> n]],
                  journals |-> kinds]

\* One query with every combination of bounds, count and answer of the tracker.
InitThresholds ==
    \E now \in PresentDates, exit_code \in BOOLEAN, kind \in QueryKinds,
       count \in 0..(MaxCount + 1) :
    \E max \in {None} \cup {Some(m) : m \in 0..MaxCount},
       min \in {None} \cup {Some(m) : m \in 0..MaxCount} :
        /\ now.month = 2
        /\ present = now
        /\ data = [reminder |-> TRUE,
                   queries |-> <<[title |-> Titles[1], slo |-> FALSE, max |-> max,
                                  min |-> min, comment |-> None]>>]
        /\ switches = [exit_code |-> exit_code]
        /\ environ = PlainEnviron
        /\ old_state_file = None
        /\ tickets = <<[priority |-> "Normal", journals |-> <<>>]>>
        /\ api = [query |-> [t \in {Titles[1]} |-> [kind |-> kind, ids |-> <<1>>,
                                                      total_count |-> count]],
                  journals |-> <<"ok">>]

OldDetail == [url |-> <<"web?">>, issue_count |-> Some(MaxCount), limits |-> ""]

\* Up to MaxQueries queries, each passing, failing or not answered properly, after a
\* previous run that left any state file or none; the webhook set or not, up or down.
InitQueries ==
    \E now \in PresentDates, n \in 1..MaxQueries :
    \E maxes \in [1..n -> {None, Some(MaxCount - 1)}], kinds \in [1..n -> QueryKinds],
       counts \in [1..n -> {0, MaxCount}],
       old \in {None} \cup {Some(S) : S \in SUBSET {Titles[k] : k \in 1..n}},
       env \in {PlainEnviron, [WEBHOOK_URL |-> TRUE, webhook_up |-> TRUE],
                [WEBHOOK_URL |-> TRUE, webhook_up |-> FALSE]} :
        /\ now.month = 2
        /\ \A k \in 1..n : kinds[k] # "ok" => counts[k] = 0
        /\ present = now
        /\ data = [reminder |-> TRUE,
                   queries |-> [k \in 1..n |-> [title |-> Titles[k], slo |-> FALSE,
                                                max |-> maxes[k], min |-> None,
                                                comment |-> None]]]
        /\ switches = [exit_code |-> FALSE]
        /\ environ = env
        /\ old_state_file = IF IsNone(old) THEN None
                            ELSE Some([bad_queries |-> [t \in Val(old) |-> OldDetail],
                                       updated |-> ToOrdinal(now) - 1])
        /\ tickets = <<>>
        /\ api = [query |-> [t \in {Titles[k] : k \in 1..n} |->
                                LET k == CHOOSE j \in 1..n : Titles[j] = t
                                IN  [kind |-> kinds[k], ids |-> <<>>,
                                     total_count |-> counts[k]]],
                  journals |-> <<>>]

Init == (InitOneTicket \/ InitFetches \/ InitThresholds \/ InitQueries) /\ RunStart

Next == GetQuery \/ ListIssue \/ ListIssuesEnd \/ Evaluate \/ TriggerWebhook
        \/ UpdateState \/ Exit

Spec == Init /\ [][Next]_vars

(***************************************************************************)
(* Successive runs against the same tracker.                               *)
(***************************************************************************)
MaxRuns == 6

\* The days of the scheduled runs: a first day, the day after, two and eight days
\* after, then more than a month and more than a year after it.
RunDates ==
    <<[year |-> 2024, month |-> 2, day |-> 27], [year |-> 2024, month |-> 2, day |-> 28],
      [year |-> 2024, month |-> 2, day |-> 29], [year |-> 2024, month |-> 3, day |-> 6],
      [year |-> 2024, month |-> 3, day |-> 30], [year |-> 2025, month |-> 2, day |-> 28],
      [year |-> 2025, month |-> 3, day |-> 1], [year |-> 2026, month |-> 3, day |-> 2]>>

\* The run days in use: the first MaxRuns of them.
Scheduled == {RunDates[k] : k \in 1..(IF MaxRuns < Len(RunDates) THEN MaxRuns
                                      ELSE Len(RunDates))}

\* The first run: up to MaxQueries queries with `updated_on` listing the same ticket,
\* of any priority, with an overdue reminder or none, the queries with or without a
\* comment of their own.
InitRuns ==
    \E priority \in Priorities, hist \in BOOLEAN, n \in 1..MaxQueries,
       comment \in {None, Some(CustomComment)} :
        /\ present = RunDates[1]
        /\ data = [reminder |-> TRUE,
                   queries |-> [k \in 1..n |->
                                  [title |-> Titles[k], slo |-> TRUE, max |-> None,
                                   min |-> None, comment |-> comment]]]
        /\ switches = [exit_code |-> FALSE]
        /\ environ = PlainEnviron
        /\ old_state_file = None
        /\ tickets = <<[priority |-> priority,
                        journals |-> IF hist THEN <<OldReminder(priority, RunDates[1])>>
                                     ELSE <<>>]>>
        /\ api = [query |-> [t \in {Titles[k] : k \in 1..n} |->
                                [kind |-> "ok", ids |-> <<1>>, total_count |-> 1]],
                  journals |-> <<"ok">>]

\* The script is started again on a later day: `present` is taken anew, the tracker
\* keeps its tickets and journals, state.json of the last run is what get_state finds.
NextRun ==
    /\ pc = "done"
    /\ \E now \in Scheduled :
          /\ ToOrdinal(now) > ToOrdinal(present)
          /\ present' = now
    /\ old_state_file' = IF IsNone(state_file) THEN old_state_file ELSE state_file
    /\ pc' = "query"
    /\ qi' = 1
    /\ root' = <<>>
    /\ ti' = 1
    /\ issue_count' = None
    /\ poo' = None
    /\ poo_conf' = None
    /\ journals' = None
    /\ poo_reminder_state' = FreshState
    /\ found' = None
    /\ sent' = None
    /\ puts' = <<>>
    /\ all_good' = TRUE
    /\ results' = <<>>
    /\ bad_queries' = <<>>
    /\ msg' = None
    /\ posts' = <<>>
    /\ state_file' = None
    /\ exc' = None
    /\ exit_status' = None
    /\ UNCHANGED <<data, switches, environ, api, tickets>>

NextRuns == Next \/ NextRun

InitFirstRun == InitRuns /\ RunStart

SpecRuns == InitFirstRun /\ [][NextRuns]_vars

(***************************************************************************)
(* Properties.                                                             *)
(***************************************************************************)
\* The journals the scanner was given for the ticket last evaluated.
Scanned == ~IsNone(poo) /\ ~IsNone(journals)

\* The positions of the journals whose notes match the reminder pattern.
Matching(js) ==
    {k \in 1..Len(js) : ~IsNone(js[k].notes) /\ Val(js[k].notes) # <<>>
                        /\ reminder_regex(Val(js[k].notes))}

\* The query the ticket last evaluated came from.
PooConf == Val(poo_conf)

\* C1: when the journals hold matching notes at two times T1 < T2, in that order, the
\* scan reports the later one, T2, as last_reminder, and has_repeat_reminder is true.
C1_LatestMatchWins ==
    Scanned =>
        \A i \in Matching(Val(journals)) : \A j \in Matching(Val(journals)) :
            (i < j /\ Val(journals)[i].created_on < Val(journals)[j].created_on
               /\ \A k \in Matching(Val(journals)) : k <= j)
            => /\ poo_reminder_state.has_repeat_reminder
               /\ poo_reminder_state.last_reminder = Val(journals)[j].created_on

\* The ticket last evaluated has a reminder and a priority other than Low.
HasLadderCase ==
    /\ Scanned
    /\ Matching(Val(journals)) # {}
    /\ Val(poo).priority # "Low"

\* The PUT that lowers the ticket last evaluated by one level was sent.
EscalationSent ==
    /\ ~IsNone(sent)
    /\ Val(sent).id = Val(poo).id
    /\ DOMAIN Val(sent).issue = {"priority_id", "notes"}
    /\ Val(sent).issue.priority_id
         = slo_priorities(present)[Val(poo).priority].next_priority.id
    /\ puts # <<>>
    /\ puts[Len(puts)] = Val(sent)

\* C2 as stated: the priority is lowered if and only if
\* now >= last_reminder + period, the day the period ends included.
C2_LoweredFromBoundary ==
    HasLadderCase =>
        (EscalationSent <=>
            ToOrdinal(present) >= poo_reminder_state.last_reminder
                                  + slo_priorities(present)[Val(poo).priority].period)

\* C2, amended: the priority is lowered if and only if now > last_reminder + period
\* (the reminder is older than the period); otherwise nothing is sent.
C2_LoweredAfterPeriod ==
    HasLadderCase =>
        IF ToOrdinal(present) > poo_reminder_state.last_reminder
                                + slo_priorities(present)[Val(poo).priority].period
        THEN EscalationSent
        ELSE IsNone(sent)

\* An Urgent ticket whose reminder is eight days old was lowered to High.
C2_Witness ==
    /\ HasLadderCase
    /\ Val(poo).priority = "Urgent"
    /\ ToOrdinal(present) = poo_reminder_state.last_reminder + 8
    /\ EscalationSent
    /\ Val(sent).issue.priority_id = 5
    /\ tickets[Val(poo).id].priority = "High"

\* C3: a ticket whose journals hold no matching reminder gets exactly one PUT, with
\* notes only: the query's comment if it has one, else the template naming the priority.
C3_FirstReminder ==
    (Scanned /\ Matching(Val(journals)) = {}) =>
        /\ ~IsNone(sent)
        /\ Val(sent).id = Val(poo).id
        /\ DOMAIN Val(sent).issue = {"notes"}
        /\ Val(sent).issue.notes
             = IF IsNone(PooConf.comment)
               THEN <<SetTo, "**", Val(poo).priority, "**", NotUpdated, SloLink,
                      Consider, PickUp>>
               ELSE Val(PooConf.comment)
        /\ Len(SelectSeq(puts, LAMBDA put : put.id = Val(poo).id)) = 1

\* A Low ticket of a query with a comment, whose journals hold notes but no reminder,
\* got the comment as its first reminder.
C3_Witness ==
    /\ Scanned
    /\ Val(journals) # <<>>
    /\ Matching(Val(journals)) = {}
    /\ Val(poo).priority = "Low"
    /\ ~IsNone(PooConf.comment)
    /\ sent = Some([id |-> Val(poo).id, issue |-> [notes |-> Val(PooConf.comment)]])

\* C4: for a Low ticket whose journals hold a matching reminder no PUT is sent,
\* whatever the age of the reminder.
C4_LowIsSkipped ==
    (Scanned /\ Matching(Val(journals)) # {} /\ Val(poo).priority = "Low") =>
        /\ IsNone(sent)
        /\ \A k \in 1..Len(puts) : puts[k].id # Val(poo).id

\* A Low ticket with a reminder older than any period of its ages was evaluated.
C4_Witness ==
    /\ Scanned
    /\ Matching(Val(journals)) # {}
    /\ Val(poo).priority = "Low"
    /\ poo_reminder_state.has_repeat_reminder
    /\ poo_reminder_state.last_reminder + 2 < ToOrdinal(present)
    /\ pc = "done"

\* The journal fetch for the ticket last evaluated succeeded without a `journals` key.
NoJournalsKey ==
    /\ ~IsNone(poo)
    /\ PooConf.slo
    /\ data.reminder
    /\ api.journals[Val(poo).id] = "no_journals"

\* C5 as stated: without a `journals` key the scanner is given the empty sequence,
\* finds no reminder, and the ticket gets the first reminder.
C5_EmptySequence ==
    NoJournalsKey =>
        /\ journals = Some(<<>>)
        /\ found = Some(FALSE)
        /\ ~IsNone(sent)

\* C5, amended: without a `journals` key retrieve_journals returns None, the scanner
\* is not called and the ticket is skipped: no PUT is sent for it.
C5_Skipped ==
    NoJournalsKey =>
        /\ IsNone(journals)
        /\ IsNone(found)
        /\ IsNone(sent)
        /\ \A k \in 1..Len(puts) : puts[k].id # Val(poo).id

\* A ticket whose fetch had no `journals` key was passed over and the run went on.
C5_Witness ==
    /\ NoJournalsKey
    /\ IsNone(sent)
    /\ IsNone(exc)
    /\ pc = "done"

\* C6: has_existing_reminder (the value returned and has_repeat_reminder) is true
\* if and only if some journal with non-empty notes matches the pattern; journals
\* without notes change nothing, and the empty sequence gives false.
C6_ReminderIffMatch ==
    Scanned =>
        /\ found = Some(Matching(Val(journals)) # {})
        /\ poo_reminder_state.has_repeat_reminder = (Matching(Val(journals)) # {})
        /\ Val(journals) = <<>> => found = Some(FALSE)

\* A journal without notes came before the matching one, and the reminder was found.
C6_Witness ==
    /\ Scanned
    /\ Len(Val(journals)) = 2
    /\ SkipsJournal(Val(journals)[1])
    /\ 2 \in Matching(Val(journals))
    /\ found = Some(TRUE)
    /\ poo_reminder_state.has_repeat_reminder

\* trigger_webhook has run: it returned, or its POST raised.
Differed ==
    \/ pc \in {"update", "exit"}
    \/ pc = "done" /\ exc \in {None, Some("ConnectionError")}

HasPrevious == ~IsNone(old_state_file)
OldBad == DOMAIN Val(old_state_file).bad_queries
NewBad == DOMAIN bad_queries
AllClear == [kind |-> "all_clear", lines |-> {}]

\* C7: with a previous state and a query that newly fails, the message is an alert
\* that lists every query failing now, each with its issue count and limits.
C7_AlertListsAllFailing ==
    (Differed /\ HasPrevious /\ NewBad \ OldBad # {}) =>
        /\ ~IsNone(msg)
        /\ Val(msg).kind = "alert"
        /\ {l.query : l \in Val(msg).lines} = NewBad
        /\ \A l \in Val(msg).lines :
              /\ l.issue_count = bad_queries[l.query].issue_count
              /\ l.limits = bad_queries[l.query].limits

\* previous = {A}, current = {A, B}: the alert that was posted names A and B.
C7_Witness ==
    /\ Differed
    /\ HasPrevious
    /\ OldBad = {"A"}
    /\ NewBad = {"A", "B"}
    /\ Len(posts) = 1
    /\ posts[1].kind = "alert"
    /\ {l.query : l \in posts[1].lines} = {"A", "B"}

\* C8: when nothing newly fails, the message is the all-clear exactly when there is a
\* previous state, some query was fixed and none fails now, and it is then POSTed to
\* a webhook that is set and answers; in every other such case (no previous state,
\* unchanged failing set, partial recovery) nothing is POSTed.  No run POSTs twice.
C8_AllClearOrSilence ==
    Differed =>
        LET clear == HasPrevious /\ OldBad \ NewBad # {} /\ NewBad = {}
        IN  /\ Len(posts) <= 1
            /\ (~HasPrevious \/ NewBad \ OldBad = {}) =>
                  /\ msg = IF clear THEN Some(AllClear) ELSE None
                  /\ posts = IF clear /\ environ.WEBHOOK_URL /\ environ.webhook_up
                             THEN <<AllClear>> ELSE <<>>

\* previous = {A, B}, current = {A}: a partial recovery, and nothing was posted
\* although the webhook is set and answers.
C8_Witness ==
    /\ pc = "done"
    /\ IsNone(exc)
    /\ HasPrevious
    /\ OldBad = {"A", "B"}
    /\ NewBad = {"A"}
    /\ environ.WEBHOOK_URL
    /\ environ.webhook_up
    /\ IsNone(msg)
    /\ posts = <<>>

\* C9: every run that reaches the differ ends with the state file replaced by the
\* failing queries of this run, also when the POST to the webhook fails.
C9_StateAlwaysReplaced ==
    (Differed /\ pc = "done") =>
        /\ ~IsNone(state_file)
        /\ Val(state_file).bad_queries = bad_queries

\* C10: a query whose answer is an HTTP error or lacks `issues` or `total_count` is
\* recorded as failed, and every query of the configuration is evaluated.
C10_FetchErrorIsolated ==
    (pc = "done" /\ \A t \in DOMAIN api.journals : api.journals[t] = "ok") =>
        /\ Len(results) = Len(data.queries)
        /\ \A k \in 1..Len(results) :
              api.query[data.queries[k].title].kind # "ok" => ~results[k].good

\* The bounds of a query as the configuration gives them.
Bounds(k) == data.queries[k]

\* The answer of the tracker to query k.
Answer(k) == api.query[data.queries[k].title]

\* C11: when the journal fetch of a ticket is answered with an HTTP error, no PUT is
\* sent for that ticket, the run goes on, and the loop of list_issues reaches the end
\* of the tickets of the query.
C11_FetchErrorSkipsTicket ==
    (~IsNone(poo) /\ PooConf.slo /\ data.reminder
     /\ api.journals[Val(poo).id] = "http_error") =>
        /\ sent = None
        /\ exc = None
        /\ (pc = "evaluate" /\ PooConf = conf) => ti > Len(root.issues)

\* C12: for a count the tracker reported, the verdict of a query is pass if and only
\* if no max is configured, or count <= max and (no min is configured or count >= min);
\* a query with only a min configured passes.
C12_VerdictFromBounds ==
    \A k \in 1..Len(results) :
        ~IsNone(results[k].issue_count) =>
            LET count == Val(results[k].issue_count)
                cf == Bounds(k)
            IN  /\ results[k].good <=>
                      \/ IsNone(cf.max)
                      \/ /\ count <= Val(cf.max)
                         /\ IsNone(cf.min) \/ count >= Val(cf.min)
                /\ (IsNone(cf.max) /\ ~IsNone(cf.min)) => results[k].good

\* A query with only a min was evaluated on a count below that min, and passed.
C12_Witness ==
    /\ pc = "done"
    /\ Len(results) = 1
    /\ ~IsNone(results[1].issue_count)
    /\ ~IsNone(Bounds(1).min)
    /\ Val(results[1].issue_count) < Val(Bounds(1).min)
    /\ IsNone(Bounds(1).max)
    /\ results[1].good

\* C13: the limits text is "<{max+1}" when max is configured, followed by
\* ", >{min-1}" when min is configured too; it is empty exactly when neither bound is
\* configured; and the ", >{min-1}" part appears only together with a max part.
C13_LimitsText ==
    \A k \in 1..Len(results) :
        LET cf == Bounds(k)
            text == results[k].limits
        IN  /\ ~IsNone(cf.max) =>
                  text = "<" \o ToString(Val(cf.max) + 1)
                         \o (IF IsNone(cf.min) THEN ""
                             ELSE ", >" \o ToString(Val(cf.min) - 1))
            /\ text = "" <=> (IsNone(cf.max) /\ IsNone(cf.min))
            /\ (IsNone(cf.max) /\ ~IsNone(cf.min)) =>
                  text # ", >" \o ToString(Val(cf.min) - 1)

\* C14: a run ends with status 3 if and only if --exit-code was given and at least one
\* query failed its bounds check; without --exit-code it ends with status 0.
C14_ExitStatus ==
    pc = "done" =>
        /\ exit_status = Some(3) <=>
              (switches.exit_code /\ \E k \in 1..Len(results) : ~results[k].good)
        /\ ~switches.exit_code => exit_status = Some(0)

\* The ticket last evaluated came from a query without `updated_on`, or the run has no
\* --reminder-comment-on-issues.
Untracked(cf) == ~cf.slo \/ ~data.reminder

\* Every journal fetch for the tickets of query k is answered with journals or nothing.
FetchesAnswered(k) ==
    \A i \in 1..Len(Answer(k).ids) :
        api.journals[Answer(k).ids[i]] \in {"ok", "no_journals", "empty"}

Ladder == <<"Immediate", "Urgent", "High", "Normal", "Low">>

Rank(name) == CHOOSE i \in 1..Len(Ladder) : Ladder[i] = name

\* The positions of the journals written by a de-prioritisation.
Deprio(js) ==
    {k \in 1..Len(js) : ~IsNone(js[k].notes)
                        /\ \E i \in 1..Len(Val(js[k].notes)) : Val(js[k].notes)[i] = WillBeSet}

C17_ClockNotRestarted ==
    /\ \A id \in DOMAIN tickets :
          LET js == tickets[id].journals
          IN  /\ Deprio(js) \cap Matching(js) = {}
              /\ Cardinality(Matching(js)) <= 1
              /\ \A k \in 1..Len(js) :
                    js[k].notes = Some(CustomComment) => k \notin Matching(js)
    /\ (Scanned /\ Deprio(Val(journals)) # {}) =>
          LET js == Val(journals)
          IN  /\ found = Some(TRUE)
              /\ \E k \in Matching(js) :
                    /\ \A d \in Deprio(js) : k < d
                    /\ poo_reminder_state.last_reminder = js[k].created_on
              /\ Val(poo).priority # "Low" =>
                    IF ToOrdinal(present) > poo_reminder_state.last_reminder
                                            + slo_priorities(present)[Val(poo).priority].period
                    THEN EscalationSent
                    ELSE IsNone(sent)
    /\ (Scanned /\ Val(journals) # <<>>
        /\ \A k \in 1..Len(Val(journals)) : Val(journals)[k].notes = Some(CustomComment)) =>
          /\ found = Some(FALSE)
          /\ sent = Some(_send_first_reminder(Val(poo).id, CustomComment))

\* A ticket lowered in an earlier run, with nothing written since, was lowered again
\* on the time of its one reminder, which is older than the first lowering.
C17_Witness ==
    /\ Scanned
    /\ Deprio(Val(journals)) # {}
    /\ Len(Val(journals)) \in Deprio(Val(journals))
    /\ Val(journals)[Len(Val(journals))].created_on < ToOrdinal(present)
    /\ Cardinality(Matching(Val(journals))) = 1
    /\ poo_reminder_state.last_reminder < Val(journals)[Len(Val(journals))].created_on
    /\ EscalationSent

====
